---- MODULE Spec2Model ----
(***************************************************************************)
(* The Miktos skill library (modeling_tools.py, shading_tools.py): eight   *)
(* stand-alone skills that validate their arguments and return a response  *)
(* envelope {status, message, data, execution_time}.                       *)
(*                                                                         *)
(* Representation of Python values                                         *)
(*   float      an integer number of tenths (0.3 is 3, 1.0 is 10)          *)
(*   str        an enumerated argument (primitive_type, axis,              *)
(*              texture_type) is the sequence of its characters, so that   *)
(*              lower(), upper() and capitalize() are computed; a          *)
(*              free-form name is a TLA+ string                            *)
(*   f-string   the tuple of its literal and interpolated parts            *)
(*   Optional   [tag |-> "None"] or [tag |-> "some", v |-> value];         *)
(*              [tag |-> "Unset"] is an argument the caller leaves out     *)
(*   dict       a record; {} is the empty function                         *)
(*   a call     ends in [kind |-> "return", value |-> envelope] or in      *)
(*              [kind |-> "raise", value |-> exception]                    *)
(***************************************************************************)
EXTENDS Integers, Sequences, FiniteSets, TLC

VARIABLES
    pc,        \* "idle", "running" (a skill's frame is live) or "returned"
    frame,     \* the live call: skill, bound arguments, start_time
    result,    \* what the last call produced (an envelope or an exception)
    now,       \* time.time(), the wall clock the skills read
    defaults,  \* the default objects bound at definition time (name, color_ramp)
    first      \* history: the first call made and its outcome

vars == <<pc, frame, result, now, defaults, first>>

----------------------------------------------------------------------------
(* Bounds of the exploration *)

MaxElapsed == 1     \* largest clock advance during one call
MaxClock == 2       \* the clock stops advancing here
MaxLevelTried == 12 \* subdivision levels -1 .. MaxLevelTried are tried
MaxCountTried == 5  \* array counts -1 .. MaxCountTried are tried
MaxFaces == 3       \* face_indices of length 0 .. MaxFaces are tried

----------------------------------------------------------------------------
(* Python built-ins the skills use *)

None == [tag |-> "None"]
Unset == [tag |-> "Unset"]
Some(v) == [tag |-> "some", v |-> v]
EmptyDict == [k \in {} |-> k]

LowerLetters == <<"a","b","c","d","e","f","g","h","i","j","k","l","m",
                  "n","o","p","q","r","s","t","u","v","w","x","y","z">>
UpperLetters == <<"A","B","C","D","E","F","G","H","I","J","K","L","M",
                  "N","O","P","Q","R","S","T","U","V","W","X","Y","Z">>

\* str.lower() / str.upper() on one character: letters are mapped, every
\* other character is kept
lower_char(c) ==
    IF \E i \in DOMAIN UpperLetters : UpperLetters[i] = c
    THEN LowerLetters[CHOOSE i \in DOMAIN UpperLetters : UpperLetters[i] = c]
    ELSE c

upper_char(c) ==
    IF \E i \in DOMAIN LowerLetters : LowerLetters[i] = c
    THEN UpperLetters[CHOOSE i \in DOMAIN LowerLetters : LowerLetters[i] = c]
    ELSE c

lower(s) == [i \in DOMAIN s |-> lower_char(s[i])]
upper(s) == [i \in DOMAIN s |-> upper_char(s[i])]
\* str.capitalize(): first character upper-cased, the rest lower-cased
capitalize(s) == [i \in DOMAIN s |-> IF i = 1 THEN upper_char(s[i]) ELSE lower_char(s[i])]

\* x in list
In(x, list) == \E i \in DOMAIN list : list[i] = x

\* all(lo <= c <= hi for c in color)
all_in_range(color, lo, hi) == \A i \in DOMAIN color : lo <= color[i] /\ color[i] <= hi

Return(status, message, data, execution_time) ==
    [kind |-> "return",
     value |-> [status |-> status, message |-> message, data |-> data,
                execution_time |-> execution_time]]

Raise(exception, arg) ==
    [kind |-> "raise", value |-> [exception |-> exception, arg |-> arg]]

----------------------------------------------------------------------------
(* modeling_tools.py *)

s_cube == <<"c","u","b","e">>
s_sphere == <<"s","p","h","e","r","e">>
s_cylinder == <<"c","y","l","i","n","d","e","r">>
s_cone == <<"c","o","n","e">>
s_plane == <<"p","l","a","n","e">>
s_torus == <<"t","o","r","u","s">>

valid_primitives == <<s_cube, s_sphere, s_cylinder, s_cone, s_plane, s_torus>>

\* the dict geometry_data as its (key, value) items
geometry_data ==
    << <<s_cube, [vertices |-> 8, faces |-> 6]>>,
       <<s_sphere, [vertices |-> 482, faces |-> 480]>>,
       <<s_cylinder, [vertices |-> 64, faces |-> 62]>>,
       <<s_cone, [vertices |-> 33, faces |-> 31]>>,
       <<s_plane, [vertices |-> 4, faces |-> 1]>>,
       <<s_torus, [vertices |-> 576, faces |-> 576]>> >>

\* key in d, d[key]
HasKey(d, key) == \E i \in DOMAIN d : d[i][1] = key
GetItem(d, key) == d[CHOOSE i \in DOMAIN d : d[i][1] = key][2]

\* The geometry_data[primitive_type] subscript of the success envelope: the
\* key is the argument as given, not its lower-cased form, so a key that is
\* absent raises KeyError while the envelope is being built.
create_primitive_success(primitive_type, size, location, rotation, name, execution_time) ==
    IF ~HasKey(geometry_data, primitive_type)
    THEN Raise("KeyError", primitive_type)
    ELSE Return("success",
                <<capitalize(primitive_type), " primitive created successfully">>,
                [object_name |-> name,
                 primitive_type |-> primitive_type,
                 location |-> location,
                 rotation |-> rotation,
                 size |-> size,
                 vertex_count |-> GetItem(geometry_data, primitive_type).vertices,
                 face_count |-> GetItem(geometry_data, primitive_type).faces],
                execution_time)

\* name: Optional[str] after the default is bound; start_time and end_time
\* are the clock readings at entry and at the return
create_primitive(primitive_type, size, location, rotation, name, start_time, end_time) ==
    IF ~In(lower(primitive_type), valid_primitives)
    THEN Return("error",
                <<"Invalid primitive type \"", primitive_type,
                  "\". Valid options: ", valid_primitives>>,
                EmptyDict, end_time - start_time)
    ELSE IF size <= 0
    THEN Return("error", <<"Size must be greater than 0">>, EmptyDict,
                end_time - start_time)
    ELSE create_primitive_success(
             primitive_type, size, location, rotation,
             IF name.tag = "None" THEN <<capitalize(primitive_type), ".001">> ELSE name.v,
             end_time - start_time)

\* extrude_faces with the error envelope echoing the target object
extrude_faces_echoing(object_name, face_indices, extrude_distance, direction, start_time, end_time) ==
    IF Len(face_indices) = 0
    THEN Return("error", <<"No faces selected for extrusion">>,
                [object_name |-> object_name], end_time - start_time)
    ELSE Return("success",
                <<"Extruded ", Len(face_indices), " faces successfully">>,
                [object_name |-> object_name,
                 extruded_faces |-> Len(face_indices),
                 extrude_distance |-> extrude_distance,
                 direction |-> direction],
                end_time - start_time)

extrude_faces(object_name, face_indices, extrude_distance, direction, start_time, end_time) ==
    IF Len(face_indices) = 0
    THEN Return("error", <<"No faces selected for extrusion">>, EmptyDict,
                end_time - start_time)
    ELSE Return("success",
                <<"Extruded ", Len(face_indices), " faces successfully">>,
                [object_name |-> object_name,
                 extruded_faces |-> Len(face_indices),
                 extrude_distance |-> extrude_distance,
                 direction |-> direction],
                end_time - start_time)

base_vertices == 8

\* performance_impact with level 3 counted as high
performance_impact_from_three(subdivision_level) ==
    IF subdivision_level >= 3 THEN "high"
    ELSE IF subdivision_level > 1 THEN "medium"
    ELSE "low"

performance_impact(subdivision_level) ==
    IF subdivision_level > 3 THEN "high"
    ELSE IF subdivision_level > 1 THEN "medium"
    ELSE "low"

subdivide_surface(object_name, subdivision_level, smooth, start_time, end_time) ==
    IF subdivision_level < 1 \/ subdivision_level > 10
    THEN Return("error", <<"Subdivision level must be between 1 and 10">>,
                EmptyDict, end_time - start_time)
    ELSE Return("success",
                <<"Subdivision surface applied at level ", subdivision_level>>,
                [object_name |-> object_name,
                 subdivision_level |-> subdivision_level,
                 smooth_shading |-> smooth,
                 new_vertex_count |-> base_vertices * (4 ^ subdivision_level),
                 performance_impact |-> performance_impact(subdivision_level)],
                end_time - start_time)

valid_axes == << <<"X">>, <<"Y">>, <<"Z">> >>

\* the axis test without the upper()
axis_is_valid_as_given(axis) == In(axis, valid_axes)

\* the axis test shared by apply_mirror_modifier and create_array_modifier
axis_is_valid(axis) == In(upper(axis), valid_axes)

apply_mirror_modifier(object_name, axis, use_clipping, merge_threshold, start_time, end_time) ==
    IF ~axis_is_valid(axis)
    THEN Return("error",
                <<"Invalid axis \"", axis, "\". Valid options: ", valid_axes>>,
                EmptyDict, end_time - start_time)
    ELSE Return("success",
                <<"Mirror modifier applied on ", upper(axis), " axis">>,
                [object_name |-> object_name,
                 mirror_axis |-> upper(axis),
                 use_clipping |-> use_clipping,
                 merge_threshold |-> merge_threshold,
                 estimated_vertex_doubling |-> TRUE],
                end_time - start_time)

\* total_length with one offset per instance
total_length_per_instance(offset_distance, count) == offset_distance * count

total_length(offset_distance, count) == offset_distance * (count - 1)

create_array_modifier(object_name, count, offset_distance, axis, start_time, end_time) ==
    IF count < 1
    THEN Return("error", <<"Array count must be at least 1">>, EmptyDict,
                end_time - start_time)
    ELSE IF ~axis_is_valid(axis)
    THEN Return("error",
                <<"Invalid axis \"", axis, "\". Valid options: ", valid_axes>>,
                EmptyDict, end_time - start_time)
    ELSE Return("success",
                <<"Array modifier created with ", count, " instances">>,
                [object_name |-> object_name,
                 total_instances |-> count,
                 offset_distance |-> offset_distance,
                 array_axis |-> upper(axis),
                 total_length |-> total_length(offset_distance, count)],
                end_time - start_time)

----------------------------------------------------------------------------
(* shading_tools.py *)

surface_material_type(metallic) == IF metallic > 7 THEN "Metallic" ELSE "Dielectric"

\* surface_type with the boundaries included
surface_type_inclusive(roughness) ==
    IF roughness <= 3 THEN "Glossy"
    ELSE IF roughness >= 7 THEN "Rough"
    ELSE "Satin"

surface_type(roughness) ==
    IF roughness < 3 THEN "Glossy"
    ELSE IF roughness > 7 THEN "Rough"
    ELSE "Satin"

\* the loop over [base_color, emission_color]: both iterations return the
\* same envelope
colors_valid(base_color, emission_color) ==
    all_in_range(base_color, 0, 10) /\ all_in_range(emission_color, 0, 10)

\* the range test with the bounds 0.0 and 1.0 rejected
unit_range_open(x) == 0 < x /\ x < 10

unit_range(x) == 0 <= x /\ x <= 10

create_pbr_material(material_name, base_color, metallic, roughness, normal_strength, emission_color, emission_strength, start_time, end_time) ==
    IF ~colors_valid(base_color, emission_color)
    THEN Return("error", <<"Color values must be between 0.0 and 1.0">>,
                EmptyDict, end_time - start_time)
    ELSE IF ~unit_range(metallic)
    THEN Return("error", <<"Metallic value must be between 0.0 and 1.0">>,
                EmptyDict, end_time - start_time)
    ELSE IF ~unit_range(roughness)
    THEN Return("error", <<"Roughness value must be between 0.0 and 1.0">>,
                EmptyDict, end_time - start_time)
    ELSE Return("success",
                <<"PBR material \"", material_name, "\" created successfully">>,
                [material_name |-> material_name,
                 material_type |-> "PBR",
                 surface_classification |->
                     <<surface_material_type(metallic), " ", surface_type(roughness)>>,
                 properties |->
                     [base_color |-> base_color,
                      metallic |-> metallic,
                      roughness |-> roughness,
                      normal_strength |-> normal_strength,
                      emission_color |-> emission_color,
                      emission_strength |-> emission_strength],
                 render_engine_compatibility |-> <<"Cycles", "Eevee", "Arnold", "V-Ray">>],
                end_time - start_time)

apply_material_to_object(object_name, material_name, material_slot, start_time, end_time) ==
    IF material_slot < 0
    THEN Return("error", <<"Material slot must be 0 or greater">>, EmptyDict,
                end_time - start_time)
    ELSE Return("success",
                <<"Material \"", material_name, "\" applied to \"", object_name, "\"">>,
                [object_name |-> object_name,
                 material_name |-> material_name,
                 material_slot |-> material_slot,
                 application_method |-> "direct_assignment"],
                end_time - start_time)

s_noise == <<"n","o","i","s","e">>
s_voronoi == <<"v","o","r","o","n","o","i">>
s_wave == <<"w","a","v","e">>
s_magic == <<"m","a","g","i","c">>
s_brick == <<"b","r","i","c","k">>
s_checker == <<"c","h","e","c","k","e","r">>

valid_types == <<s_noise, s_voronoi, s_wave, s_magic, s_brick, s_checker>>

\* [(0.0, (0.0, 0.0, 0.0)), (1.0, (1.0, 1.0, 1.0))]
default_color_ramp == << <<0, <<0, 0, 0>>>>, <<10, <<10, 10, 10>>>> >>

\* the default substituted for every falsy ramp (`if not color_ramp`)
resolve_color_ramp_if_falsy(color_ramp) ==
    IF color_ramp.tag = "None" \/ color_ramp.v = <<>>
    THEN default_color_ramp
    ELSE color_ramp.v

\* if color_ramp is None: color_ramp = [...]  (the local name is rebound)
resolve_color_ramp(color_ramp) ==
    IF color_ramp.tag = "None" THEN default_color_ramp ELSE color_ramp.v

\* color_ramp: Optional[List] after the default is bound
create_procedural_texture(texture_name, texture_type, scale, detail, distortion, color_ramp, start_time, end_time) ==
    IF ~In(lower(texture_type), valid_types)
    THEN Return("error",
                <<"Invalid texture type \"", texture_type,
                  "\". Valid options: ", valid_types>>,
                EmptyDict, end_time - start_time)
    ELSE Return("success",
                <<"Procedural texture \"", texture_name, "\" created">>,
                [texture_name |-> texture_name,
                 texture_type |-> texture_type,
                 properties |->
                     [scale |-> scale,
                      detail |-> detail,
                      distortion |-> distortion,
                      color_ramp_stops |-> Len(resolve_color_ramp(color_ramp))],
                 node_type |-> "procedural",
                 output_type |-> "color_and_factor"],
                end_time - start_time)

----------------------------------------------------------------------------
(* Calling a skill *)

\* the default objects of the two Optional parameters: name: Optional[str] =
\* None and color_ramp: Optional[List] = None
initial_defaults == [name |-> None, color_ramp |-> None]

\* a parameter the caller leaves out is bound to the function's default object
bind(arg, default) == IF arg.tag = "Unset" THEN default ELSE arg

bind_args(call, d) ==
    IF call.skill = "create_primitive"
    THEN [call.args EXCEPT !.name = bind(@, d.name)]
    ELSE IF call.skill = "create_procedural_texture"
    THEN [call.args EXCEPT !.color_ramp = bind(@, d.color_ramp)]
    ELSE call.args

\* a default ramp that is one shared list, filled by the call that uses it
defaults_with_shared_ramp(d, skill, args) ==
    IF skill = "create_procedural_texture" /\ args.color_ramp.tag = "None"
    THEN [d EXCEPT !.color_ramp = Some(default_color_ramp \o default_color_ramp)]
    ELSE d

\* The default objects after a call returns. No body stores into one: `name =
\* ...` and `color_ramp = [...]` assign the local names, and every list and
\* dict a skill uses is built inside the call.
defaults_after_call(d, skill, args) == d

\* the body of the called skill, from its bound arguments to its outcome
run_skill(skill, a, start_time, end_time) ==
    CASE skill = "create_primitive" ->
           create_primitive(a.primitive_type, a.size, a.location, a.rotation, a.name,
                            start_time, end_time)
      [] skill = "extrude_faces" ->
           extrude_faces(a.object_name, a.face_indices, a.extrude_distance, a.direction,
                         start_time, end_time)
      [] skill = "subdivide_surface" ->
           subdivide_surface(a.object_name, a.subdivision_level, a.smooth,
                             start_time, end_time)
      [] skill = "apply_mirror_modifier" ->
           apply_mirror_modifier(a.object_name, a.axis, a.use_clipping, a.merge_threshold,
                                 start_time, end_time)
      [] skill = "create_array_modifier" ->
           create_array_modifier(a.object_name, a.count, a.offset_distance, a.axis,
                                 start_time, end_time)
      [] skill = "create_pbr_material" ->
           create_pbr_material(a.material_name, a.base_color, a.metallic, a.roughness,
                               a.normal_strength, a.emission_color, a.emission_strength,
                               start_time, end_time)
      [] skill = "apply_material_to_object" ->
           apply_material_to_object(a.object_name, a.material_name, a.material_slot,
                                    start_time, end_time)
      [] skill = "create_procedural_texture" ->
           create_procedural_texture(a.texture_name, a.texture_type, a.scale, a.detail,
                                     a.distortion, a.color_ramp, start_time, end_time)

----------------------------------------------------------------------------
(* The arguments tried *)

PrimitiveTypes ==
    { s_cube, s_sphere, s_cylinder, s_cone, s_plane, s_torus,
      <<"S","p","h","e","r","e">>, <<"C","U","B","E">>, <<"t","O","r","u","s">>,
      <<"p","y","r","a","m","i","d">>, <<"c","u","b","e"," ">>, <<>> }

Axes == { <<"X">>, <<"Y">>, <<"Z">>, <<"x">>, <<"z">>, <<"W">>, <<"w">>,
          <<"X","Y">>, <<>> }

TextureTypes ==
    { s_noise, s_voronoi, s_wave, s_magic, s_brick, s_checker,
      <<"N","o","i","s","e">>, <<"V","O","R","O","N","O","I">>,
      <<"m","a","r","b","l","e">>, <<>> }

Vectors == { <<0, 0, 0>>, <<50, 0, 20>> }

FaceLists == { [i \in 1..n |-> i - 1] : n \in 0..MaxFaces } \cup { <<-1>> }

Colors == { <<8, 8, 8>>, <<0, 10, 5>>, <<12, 0, 0>>, <<0, -1, 0>> }

Ramps == { <<>>,
           << <<5, <<2, 2, 2>>>> >>,
           << <<0, <<0, 0, 0>>>>, <<5, <<10, 0, 0>>>>, <<10, <<10, 10, 10>>>> >> }

PrimitiveCalls ==
    { [skill |-> "create_primitive",
       args |-> [primitive_type |-> t, size |-> z, location |-> l,
                 rotation |-> <<0, 0, 0>>, name |-> n]] :
      t \in PrimitiveTypes, z \in {-10, 0, 5, 20, 30}, l \in Vectors,
      n \in {Unset, Some("Ball")} }

ExtrudeCalls ==
    { [skill |-> "extrude_faces",
       args |-> [object_name |-> "Cube.001", face_indices |-> f,
                 extrude_distance |-> x, direction |-> <<0, 0, 10>>]] :
      f \in FaceLists, x \in {-5, 10} }

SubdivideCalls ==
    { [skill |-> "subdivide_surface",
       args |-> [object_name |-> o, subdivision_level |-> v, smooth |-> b]] :
      o \in {"Cube.001", "Ball"}, v \in -1..MaxLevelTried, b \in BOOLEAN }

MirrorCalls ==
    { [skill |-> "apply_mirror_modifier",
       args |-> [object_name |-> "Obj", axis |-> a, use_clipping |-> c,
                 merge_threshold |-> m]] :
      a \in Axes, c \in BOOLEAN, m \in {0, 1} }

ArrayCalls ==
    { [skill |-> "create_array_modifier",
       args |-> [object_name |-> "Pillar", count |-> c, offset_distance |-> x,
                 axis |-> a]] :
      c \in -1..MaxCountTried, x \in {-10, 0, 20, 30}, a \in Axes }

PbrCalls ==
    { [skill |-> "create_pbr_material",
       args |-> [material_name |-> "Steel", base_color |-> b, metallic |-> m,
                 roughness |-> r, normal_strength |-> n, emission_color |-> e,
                 emission_strength |-> x]] :
      b \in Colors, m \in {-1, 0, 7, 8, 9, 10, 11},
      r \in {-1, 0, 2, 3, 5, 7, 8, 10, 11}, n \in {10, 50},
      e \in {<<0, 0, 0>>, <<10, 10, 10>>, <<0, 0, 11>>}, x \in {0, -20} }

ApplyMaterialCalls ==
    { [skill |-> "apply_material_to_object",
       args |-> [object_name |-> "Cube.001", material_name |-> m,
                 material_slot |-> k]] :
      m \in {"Steel", "Gold"}, k \in -2..2 }

TextureCalls ==
    { [skill |-> "create_procedural_texture",
       args |-> [texture_name |-> "T", texture_type |-> t, scale |-> c,
                 detail |-> 20, distortion |-> 0, color_ramp |-> r]] :
      t \in TextureTypes, c \in {10, 50},
      r \in {Unset, None} \cup { Some(x) : x \in Ramps } }

Calls == PrimitiveCalls \cup ExtrudeCalls \cup SubdivideCalls \cup MirrorCalls
         \cup ArrayCalls \cup PbrCalls \cup ApplyMaterialCalls \cup TextureCalls

\* the calls of the call-sequence specification: per skill, calls that
\* succeed, calls that fail and calls whose optional argument is left out
SequenceCalls ==
    { c \in PrimitiveCalls :
        /\ c.args.primitive_type \in
             {s_sphere, s_cube, <<"S","p","h","e","r","e">>, <<"p","y","r","a","m","i","d">>}
        /\ c.args.size \in {0, 20}
        /\ c.args.location = <<0, 0, 0>> }
    \cup { c \in ExtrudeCalls : Len(c.args.face_indices) <= 1 /\ c.args.extrude_distance = 10 }
    \cup { c \in SubdivideCalls :
             c.args.object_name = "Ball" /\ c.args.smooth /\ c.args.subdivision_level \in {0, 2} }
    \cup { c \in MirrorCalls :
             c.args.axis \in {<<"x">>, <<"W">>} /\ c.args.use_clipping /\ c.args.merge_threshold = 0 }
    \cup { c \in ArrayCalls :
             c.args.axis \in {<<"X">>, <<"w">>} /\ c.args.count \in {0, 3}
             /\ c.args.offset_distance = 20 }
    \cup { c \in PbrCalls :
             /\ c.args.base_color = <<8, 8, 8>> /\ c.args.emission_color = <<0, 0, 0>>
             /\ c.args.metallic \in {9, 11} /\ c.args.roughness = 3
             /\ c.args.normal_strength = 10 /\ c.args.emission_strength = 0 }
    \cup { c \in ApplyMaterialCalls :
             c.args.material_name = "Steel" /\ c.args.material_slot \in {-1, 0} }
    \cup { c \in TextureCalls :
             /\ c.args.texture_type \in {s_noise, <<"m","a","r","b","l","e">>}
             /\ c.args.scale = 10
             /\ c.args.color_ramp \in {Unset, None, Some(<<>>)} }

----------------------------------------------------------------------------
(* The state machine: a caller invokes one skill at a time *)

NoFrame == [skill |-> "none"]
NoResult == [kind |-> "none"]

Init ==
    /\ pc = "idle"
    /\ frame = NoFrame
    /\ result = NoResult
    /\ now = 0
    /\ defaults = initial_defaults
    /\ first = NoFrame

\* entry into a skill: the parameters are bound and start_time = time.time()
Invoke(call) ==
    /\ pc = "idle"
    /\ pc' = "running"
    /\ frame' = [skill |-> call.skill, call |-> call.args,
                 args |-> bind_args(call, defaults), start_time |-> now]
    /\ UNCHANGED <<result, now, defaults, first>>

\* the body runs to its return (or to an exception) while the clock advances
Finish(elapsed) ==
    /\ pc = "running"
    /\ now + elapsed <= MaxClock
    /\ now' = now + elapsed
    /\ result' = run_skill(frame.skill, frame.args, frame.start_time, now')
    /\ defaults' = defaults_after_call(defaults, frame.skill, frame.args)
    /\ pc' = "returned"
    /\ UNCHANGED frame

\* what a caller can observe of a call, execution_time aside
Outcome(r) ==
    IF r.kind = "return"
    THEN [kind |-> r.kind, status |-> r.value.status, message |-> r.value.message,
          data |-> r.value.data]
    ELSE r

InvokeAny == \E call \in Calls : Invoke(call)

InvokeInSequence == \E call \in SequenceCalls : Invoke(call)

ReturnFromSkill ==
    /\ \E elapsed \in 0..MaxElapsed : Finish(elapsed)
    /\ UNCHANGED first

\* as ReturnFromSkill, and the first call of the run is remembered (followed:
\* a later call has returned since)
ReturnAndRemember ==
    /\ \E elapsed \in 0..MaxElapsed : Finish(elapsed)
    /\ first' = IF first.skill = "none"
                THEN [skill |-> frame.skill, call |-> frame.call,
                      outcome |-> Outcome(result'), followed |-> FALSE]
                ELSE [first EXCEPT !.followed = TRUE]

\* the caller takes the result and is ready for the next call
Collect ==
    /\ pc = "returned"
    /\ pc' = "idle"
    /\ frame' = NoFrame
    /\ result' = NoResult
    /\ UNCHANGED <<now, defaults, first>>

Next == InvokeAny \/ ReturnFromSkill \/ Collect

Spec == Init /\ [][Next]_vars

NextSequence == InvokeInSequence \/ ReturnAndRemember \/ Collect

SpecSequence == Init /\ [][NextSequence]_vars

----------------------------------------------------------------------------
(* State predicates shared by the properties *)

Returned(skill) == pc = "returned" /\ frame.skill = skill
Envelope == result.value
IsSuccess == result.kind = "return" /\ result.value.status = "success"
IsError == result.kind = "return" /\ result.value.status = "error"

EnvelopeKeys == {"status", "message", "data", "execution_time"}

LowerIsOneOf(s, names) == lower(s) \in names
PrimitiveNames == {s_cube, s_sphere, s_cylinder, s_cone, s_plane, s_torus}
TextureNames == {s_noise, s_voronoi, s_wave, s_magic, s_brick, s_checker}
AxisNames == { <<"X">>, <<"Y">>, <<"Z">> }

----------------------------------------------------------------------------
(* C1: every call of every skill, with valid or invalid arguments, ends by *)
(* returning an envelope whose keys are exactly status, message, data and  *)
(* execution_time; no call raises.                                         *)
C1_AlwaysAnEnvelope ==
    pc = "returned" =>
        /\ result.kind = "return"
        /\ DOMAIN result.value = EnvelopeKeys

(* C2: create_primitive matches primitive_type case-insensitively: a type  *)
(* whose lower-cased form is one of the six names, with size > 0, succeeds *)
(* with the table's vertex and face counts of that name; every other       *)
(* string gives status error.                                              *)
TableCounts(name) ==
    CASE name = s_cube -> <<8, 6>>
      [] name = s_sphere -> <<482, 480>>
      [] name = s_cylinder -> <<64, 62>>
      [] name = s_cone -> <<33, 31>>
      [] name = s_plane -> <<4, 1>>
      [] name = s_torus -> <<576, 576>>

C2_PrimitiveCaseInsensitive ==
    Returned("create_primitive") =>
        LET t == frame.args.primitive_type IN
        IF LowerIsOneOf(t, PrimitiveNames)
        THEN frame.args.size > 0 =>
                /\ IsSuccess
                /\ <<Envelope.data.vertex_count, Envelope.data.face_count>>
                       = TableCounts(lower(t))
        ELSE IsError

(* C3: an envelope with status error has data = {}, and a call that        *)
(* violates a documented precondition (a number out of range, an           *)
(* enumerated string that is not recognised, no face indices) returns      *)
(* status error.                                                           *)
PreconditionViolated(skill, a) ==
    CASE skill = "create_primitive" ->
           ~LowerIsOneOf(a.primitive_type, PrimitiveNames) \/ a.size <= 0
      [] skill = "extrude_faces" -> a.face_indices = <<>>
      [] skill = "subdivide_surface" -> a.subdivision_level \notin 1..10
      [] skill = "apply_mirror_modifier" -> upper(a.axis) \notin AxisNames
      [] skill = "create_array_modifier" -> a.count < 1 \/ upper(a.axis) \notin AxisNames
      [] skill = "create_pbr_material" ->
           \/ \E i \in 1..3 : a.base_color[i] < 0 \/ a.base_color[i] > 10
           \/ \E i \in 1..3 : a.emission_color[i] < 0 \/ a.emission_color[i] > 10
           \/ a.metallic < 0 \/ a.metallic > 10
           \/ a.roughness < 0 \/ a.roughness > 10
      [] skill = "apply_material_to_object" -> a.material_slot < 0
      [] skill = "create_procedural_texture" ->
           ~LowerIsOneOf(a.texture_type, TextureNames)

C3_ErrorsCarryNoData ==
    pc = "returned" =>
        /\ IsError => Envelope.data = EmptyDict
        /\ PreconditionViolated(frame.skill, frame.args) => IsError

C3_Witness ==
    /\ Returned("extrude_faces")
    /\ frame.args.face_indices = <<>>
    /\ IsError
    /\ Envelope.data = EmptyDict

RECURSIVE FourTo(_)
FourTo(n) == IF n = 0 THEN 1 ELSE 4 * FourTo(n - 1)

C6_SurfaceClassification ==
    (Returned("create_pbr_material") /\ IsSuccess) =>
        LET m == frame.args.metallic
            r == frame.args.roughness
            c == Envelope.data.surface_classification
        IN  /\ c[1] = (IF m > 7 THEN "Metallic" ELSE "Dielectric")
            /\ c[2] = " "
            /\ c[3] = (IF r < 3 THEN "Glossy" ELSE IF r > 7 THEN "Rough" ELSE "Satin")
            /\ Len(c) = 3
            /\ m = 7 => c[1] = "Dielectric"
            /\ r \in {3, 7} => c[3] = "Satin"

C6_Witness ==
    /\ Returned("create_pbr_material")
    /\ frame.args.metallic = 9
    /\ frame.args.roughness = 3
    /\ IsSuccess
    /\ Envelope.data.surface_classification = <<"Metallic", " ", "Satin">>

(* C7: create_pbr_material gives status error if and only if a channel of  *)
(* base_color or emission_color, or metallic, or roughness is outside      *)
(* [0.0, 1.0] (0.0 and 1.0 are accepted; normal_strength and               *)
(* emission_strength are not validated); the message is that of the first  *)
(* failing check in the order colors, metallic, roughness.                 *)
ChannelOutside(color) == \E i \in DOMAIN color : color[i] < 0 \/ color[i] > 10

C7_PbrValidation ==
    Returned("create_pbr_material") =>
        LET a == frame.args
            badColor == ChannelOutside(a.base_color) \/ ChannelOutside(a.emission_color)
            badMetallic == a.metallic < 0 \/ a.metallic > 10
            badRoughness == a.roughness < 0 \/ a.roughness > 10
        IN  /\ result.kind = "return"
            /\ IsError <=> (badColor \/ badMetallic \/ badRoughness)
            /\ ~IsError => IsSuccess
            /\ badColor =>
                 Envelope.message = <<"Color values must be between 0.0 and 1.0">>
            /\ (~badColor /\ badMetallic) =>
                 Envelope.message = <<"Metallic value must be between 0.0 and 1.0">>
            /\ (~badColor /\ ~badMetallic /\ badRoughness) =>
                 Envelope.message = <<"Roughness value must be between 0.0 and 1.0">>

C7_Witness ==
    /\ Returned("create_pbr_material")
    /\ frame.args.emission_color = <<0, 0, 11>>
    /\ frame.args.base_color = <<0, 10, 5>>
    /\ frame.args.metallic = 11
    /\ frame.args.roughness = -1
    /\ IsError
    /\ Envelope.message = <<"Color values must be between 0.0 and 1.0">>

(* C8, as stated: create_array_modifier gives status error when count < 1  *)
(* (checked before the axis) and when axis is not one of X, Y, Z; every    *)
(* count >= 1 with one of these axes succeeds with total_instances = count *)
(* and total_length = offset_distance * (count - 1).                       *)
ArrayResult(count, offset_distance) ==
    /\ IsSuccess
    /\ Envelope.data.total_instances = count
    /\ Envelope.data.total_length = offset_distance * count - offset_distance
    /\ count = 1 => Envelope.data.total_length = 0
    /\ (count = 5 /\ offset_distance = 30) => Envelope.data.total_length = 120

C8_ArrayAxisAsWritten ==
    Returned("create_array_modifier") =>
        LET a == frame.args IN
        /\ a.count < 1 =>
             IsError /\ Envelope.message = <<"Array count must be at least 1">>
        /\ a.axis \notin AxisNames => IsError
        /\ (a.count >= 1 /\ a.axis \in AxisNames) => ArrayResult(a.count, a.offset_distance)

(* C8, amended: the axis is matched case-insensitively. The status is      *)
(* error when count < 1 (checked before the axis) and when the upper-cased *)
(* axis is not one of X, Y, Z; every count >= 1 with an axis whose         *)
(* upper-cased form is X, Y or Z succeeds with total_instances = count and *)
(* total_length = offset_distance * (count - 1).                           *)
C8_ArrayModifier ==
    Returned("create_array_modifier") =>
        LET a == frame.args IN
        /\ result.kind = "return"
        /\ a.count < 1 =>
             IsError /\ Envelope.message = <<"Array count must be at least 1">>
        /\ upper(a.axis) \notin AxisNames => IsError
        /\ (a.count >= 1 /\ upper(a.axis) \in AxisNames) =>
             ArrayResult(a.count, a.offset_distance)

C8_Witness ==
    /\ Returned("create_array_modifier")
    /\ frame.args.count = 5
    /\ frame.args.offset_distance = 30
    /\ frame.args.axis = <<"x">>
    /\ IsSuccess
    /\ Envelope.data.total_instances = 5
    /\ Envelope.data.total_length = 120

(* C9: create_procedural_texture with a texture_type whose lower-cased     *)
(* form is one of the six names succeeds; color_ramp_stops is 2 when       *)
(* color_ramp is unset (the default ramp) and the length of the supplied   *)
(* ramp otherwise, 0 for the empty ramp; any other texture_type gives      *)
(* status error whatever color_ramp is.                                    *)
C9_TextureRamp ==
    Returned("create_procedural_texture") =>
        LET given == frame.call.color_ramp IN
        IF LowerIsOneOf(frame.call.texture_type, TextureNames)
        THEN /\ IsSuccess
             /\ Envelope.data.properties.color_ramp_stops =
                    (IF given.tag = "some" THEN Len(given.v) ELSE 2)
        ELSE IsError

C9_Witness ==
    /\ Returned("create_procedural_texture")
    /\ frame.call.texture_type = <<"N","o","i","s","e">>
    /\ frame.call.color_ramp = Some(<<>>)
    /\ IsSuccess
    /\ Envelope.data.properties.color_ramp_stops = 0

(* C10: apply_mirror_modifier matches axis case-insensitively: the status  *)
(* is error exactly when the upper-cased axis is not one of X, Y, Z;       *)
(* otherwise the call succeeds with mirror_axis the upper-cased axis,      *)
(* use_clipping and merge_threshold as given and                           *)
(* estimated_vertex_doubling true.                                         *)
C10_MirrorAxis ==
    Returned("apply_mirror_modifier") =>
        LET a == frame.args IN
        /\ result.kind = "return"
        /\ IsError <=> upper(a.axis) \notin AxisNames
        /\ upper(a.axis) \in AxisNames =>
             /\ IsSuccess
             /\ Envelope.data.mirror_axis = upper(a.axis)
             /\ Envelope.data.use_clipping = a.use_clipping
             /\ Envelope.data.merge_threshold = a.merge_threshold
             /\ Envelope.data.estimated_vertex_doubling = TRUE

C10_Witness ==
    /\ Returned("apply_mirror_modifier")
    /\ frame.args.axis = <<"z">>
    /\ ~frame.args.use_clipping
    /\ IsSuccess
    /\ Envelope.data.mirror_axis = <<"Z">>
    /\ Envelope.data.use_clipping = FALSE

====
